---- MODULE Spec2Model ----
(***************************************************************************)
(* Model of the code classification engine of the campaign backend:        *)
(* CodeService.getWinners / getLosers / getWinnerCodes / getNonWinnerCodes *)
(* and the helper norm.                                                    *)
(*                                                                         *)
(* A string is a sequence of one-character strings, so that trim,          *)
(* toUpperCase, replace(/-/g, ''), slice, includes and the exact           *)
(* comparisons of IN (...) are computed character by character.            *)
(* Comparisons are exact (binary collation).                               *)
(***************************************************************************)
EXTENDS Integers, Sequences, FiniteSets, TLC

VARIABLES
  codes,     \* the Code table: rows [id, value, isUsed, usedAt, deleted]
  winners,   \* the Winner table: rows [value, deleted]
  response,  \* { data, total } of the view call being answered, with its query
  arg,       \* SpecNorm: the raw string; SpecVariants: the list of winner values
  ret,       \* SpecNorm: the results of norm; SpecVariants: the list built
  users,     \* the User table: rows [id, username, tgId, role, deleted]
  calls      \* the UserService calls in progress, one per caller

vars == <<codes, winners, response, arg, ret, users, calls>>

-----------------------------------------------------------------------------
(* Bounds of the model.                                                    *)

\* rows in the code table plus rows in the winner table
MaxRows == 3
\* highest page number a query asks for
MaxPage == 2
\* longest generated raw string given to norm (SpecNorm)
MaxLen == 3
\* longest list of winner values given to the builder (SpecVariants)
MaxList == 2
\* rows in the code table of the single-code lookup (SpecMonth)
MaxLookupRows == 2
\* rows in the User table (SpecUsers)
MaxUsers == 2
\* UserService calls in progress at once (SpecUsers)
MaxCalls == 2

-----------------------------------------------------------------------------
(* Values.                                                                 *)

\* null / undefined string (an absent search term, an absent raw string)
Null == <<"NULL">>
\* undefined page or limit of a PagingDto
Undefined == -1
\* usedAt of a code that was never redeemed (SQL NULL)
NullTime == 0

NoResponse == [op |-> "none"]
\* no UserService call in progress
NoCall == [op |-> "none", pc |-> "idle"]
NoCalls == [p \in 1..MaxCalls |-> NoCall]

CodePlain == <<"A","B","1","2","3","4","C","D","5","6">>
CodeHyphen == <<"A","B","1","2","3","4","-","C","D","5","6">>
CodeLower == <<"a","b","1","2","3","4","c","d","5","6">>
CodeOther == <<"Z","Z","9","9","9","9","Z","Z","9","9">>
CodeShort == <<"Z","Z">>
RawExample == <<"a","b","1","2","-","c","d","3","4","5","6">>

\* values of the rows the administrative actions store
CodeValues == {CodeHyphen, CodeLower}
WinnerValues == {CodeHyphen, CodeLower, CodeShort}
\* instants of redemption: two, so that redemptions can tie and can differ
Times == {1, 2}
Searches == {Null, <<"-">>}

-----------------------------------------------------------------------------
(* Strings.                                                                *)

Whitespace == {" ", "\t", "\n"}

LowerLetters == <<"a","b","c","d","e","f","g","h","i","j","k","l","m",
                  "n","o","p","q","r","s","t","u","v","w","x","y","z">>
UpperLetters == <<"A","B","C","D","E","F","G","H","I","J","K","L","M",
                  "N","O","P","Q","R","S","T","U","V","W","X","Y","Z">>

\* the upper-case letter of every lower-case letter
UpperOf ==
  [c \in {LowerLetters[i] : i \in 1..26} |->
     UpperLetters[CHOOSE i \in 1..26 : LowerLetters[i] = c]]

\* String.prototype.toUpperCase on one character
UpperChar(c) == IF c \in DOMAIN UpperOf THEN UpperOf[c] ELSE c

RECURSIVE TrimStart(_)
TrimStart(s) ==
  IF s # <<>> /\ Head(s) \in Whitespace THEN TrimStart(Tail(s)) ELSE s

RECURSIVE TrimEnd(_)
TrimEnd(s) ==
  IF s # <<>> /\ s[Len(s)] \in Whitespace
    THEN TrimEnd(SubSeq(s, 1, Len(s) - 1))
    ELSE s

\* String.prototype.trim
Trim(s) == TrimEnd(TrimStart(s))

\* String.prototype.toUpperCase
ToUpperCase(s) == [i \in 1..Len(s) |-> UpperChar(s[i])]

IsNotHyphen(c) == c # "-"

\* s.replace(/-/g, '')
RemoveHyphens(s) == SelectSeq(s, IsNotHyphen)

\* const norm = (s) => (s || '').trim().toUpperCase().replace(/-/g, '')
norm(s) == RemoveHyphens(ToUpperCase(Trim(IF s = Null THEN <<>> ELSE s)))

\* v.includes(search): search occurs in v as a contiguous substring
includes(v, search) ==
  \E i \in 1..(Len(v) - Len(search) + 1) :
    SubSeq(v, i, i + Len(search) - 1) = search

-----------------------------------------------------------------------------
(* Winner Set Builder: the loop every view runs over the winner values.    *)

\* the normalized length that gets a hyphenated rendering
CodeLength == 10
\* number of characters before the inserted hyphen
HyphenPos == 6

\* a builder that hyphenates every normalized value long enough to split
withHyphenAnyLength(normalized) ==
  IF Len(normalized) >= CodeLength
    THEN SubSeq(normalized, 1, HyphenPos) \o <<"-">>
           \o SubSeq(normalized, HyphenPos + 1, Len(normalized))
    ELSE normalized

\* normalized.length === 10 ? `${normalized.slice(0, 6)}-${normalized.slice(6)}` : normalized
withHyphen(normalized) ==
  IF Len(normalized) = CodeLength
    THEN SubSeq(normalized, 1, HyphenPos) \o <<"-">>
           \o SubSeq(normalized, HyphenPos + 1, Len(normalized))
    ELSE normalized

\* a builder that leaves the hyphenated rendering out
pushVariantsNoHyphen(code) ==
  LET normalized == norm(code)
  IN  <<code, normalized, normalized, RemoveHyphens(code)>>

\* winnerValueFilters.push(code, withHyphen, normalized, code.replace(/-/g, ''))
pushVariants(code) ==
  LET normalized == norm(code)
  IN  <<code, withHyphen(normalized), normalized, RemoveHyphens(code)>>

\* for (const code of winnerValues) { ... push ... }
RECURSIVE winnerValueFilters(_)
winnerValueFilters(winnerValues) ==
  IF winnerValues = <<>>
    THEN <<>>
    ELSE pushVariants(Head(winnerValues)) \o winnerValueFilters(Tail(winnerValues))

IsLive(row) == ~row.deleted

\* winnerRepository.find({ where: { deletedAt: IsNull() }, select: { value: true } })
\*   .map(w => w.value)
allWinnerValues ==
  LET live == SelectSeq(winners, IsLive)
  IN  [i \in 1..Len(live) |-> live[i].value]

-----------------------------------------------------------------------------
(* Query conditions (where.value) and their evaluation on a row.           *)

In(list) == [kind |-> "In", list |-> list]
NotIn(list) == [kind |-> "NotIn", list |-> list]
Like(s) == [kind |-> "Like", s |-> s]
NullValue == [kind |-> "Null"]
Unset == [kind |-> "Unset"]

\* if (query.search): null, undefined and '' are falsy
Truthy(s) == s # Null /\ s # <<>>

\* a search that leaves the variant list as it is
filterIncludesAll(list, search) == list

\* winnerValueFilters.filter(v => v.includes(query.search))
filterIncludes(list, search) ==
  SelectSeq(list, LAMBDA v : includes(v, search))

\* The condition on the value column.  A null where-value is either skipped
\* by the ORM (nullSkipped, the row passes) or compared as SQL NULL (no row
\* passes); IN over an empty list passes no row.
ValueMatches(cond, value, nullSkipped) ==
  CASE cond.kind = "In" -> \E i \in 1..Len(cond.list) : cond.list[i] = value
    [] cond.kind = "NotIn" -> ~ \E i \in 1..Len(cond.list) : cond.list[i] = value
    [] cond.kind = "Like" -> includes(value, cond.s)
    [] cond.kind = "Null" -> nullSkipped
    [] cond.kind = "Unset" -> TRUE

\* where: { deletedAt: IsNull(), [isUsed: true,] value: ... }
RowMatches(where, row, nullSkipped) ==
  /\ ~row.deleted
  /\ (where.isUsed => row.isUsed)
  /\ ValueMatches(where.value, row.value, nullSkipped)

\* every view ordered by ascending identifier
InOrderById(a, b, order) == a.id <= b.id

\* order: { usedAt: 'DESC' }  and  order: { id: 'ASC' }
InOrder(a, b, order) ==
  IF order = "usedAtDesc" THEN a.usedAt >= b.usedAt ELSE a.id <= b.id

\* the orders in which the database may return the rows: rows that tie in
\* the ORDER BY column come in any order
Orderings(rows, order) ==
  LET n == Len(rows)
      perms == {[i \in 1..n |-> rows[p[i]]] : p \in Permutations(1..n)}
  IN  {s \in perms : \A i \in 1..(n - 1) : InOrder(s[i], s[i + 1], order)}

Min(a, b) == IF a <= b THEN a ELSE b

\* a query that yields a row once for every entry of the IN list it equals
findAndCountPerEntry(where, order, take, skip) ==
  LET live == SelectSeq(codes, LAMBDA r : ~r.deleted /\ (where.isUsed => r.isUsed))
      hits(r) == IF where.value.kind = "In"
                   THEN SelectSeq(where.value.list, LAMBDA v : v = r.value)
                   ELSE IF ValueMatches(where.value, r.value, TRUE) THEN <<r.value>> ELSE <<>>
      RECURSIVE expand(_)
      expand(rs) == IF rs = <<>> THEN <<>>
                    ELSE [i \in 1..Len(hits(Head(rs))) |-> Head(rs)] \o expand(Tail(rs))
      rows == expand(live)
  IN  {[data |-> SubSeq(s, skip + 1, Min(skip + take, Len(s))),
        total |-> Len(rows)] : s \in Orderings(rows, order)}

\* repository.findAndCount({ where, order, take, skip }): the set of results
\* the query may give, [data, total]
findAndCount(where, order, take, skip) ==
  LET results(nullSkipped) ==
        LET rows == SelectSeq(codes, LAMBDA r : RowMatches(where, r, nullSkipped))
        IN  {[data |-> SubSeq(s, skip + 1, Min(skip + take, Len(s))),
              total |-> Len(rows)] : s \in Orderings(rows, order)}
  IN  IF where.value.kind = "Null"
        THEN results(TRUE) \cup results(FALSE)
        ELSE results(TRUE)

-----------------------------------------------------------------------------
(* Paging.                                                                 *)

DefaultLimit == 10
DefaultPage == 1

\* query.limit = query.limit ?? 10
limitOf(query) == IF query.limit = Undefined THEN DefaultLimit ELSE query.limit
\* query.page = query.page ?? 1
pageOf(query) == IF query.page = Undefined THEN DefaultPage ELSE query.page
\* skip: (query.page - 1) * query.limit
skipOf(query) == (pageOf(query) - 1) * limitOf(query)

\* the PagingDto values the callers send
Queries ==
  {[search |-> s, page |-> Undefined, limit |-> Undefined] : s \in Searches}
    \cup {[search |-> s, page |-> p, limit |-> 1] : s \in Searches, p \in 1..MaxPage}

-----------------------------------------------------------------------------
(* The four views.  Each builds its where clause from the winner values it *)
(* has just loaded and runs one findAndCount.                              *)

\* getWinners: where = { deletedAt: IsNull(), isUsed: true, value }
getWinnersWhere(search) ==
  LET filters == winnerValueFilters(allWinnerValues)
      value0 == IF Len(filters) > 0 THEN In(filters) ELSE NullValue
      value1 == IF Truthy(search)
                  THEN IF Len(filters) > 0
                         THEN In(filterIncludes(filters, search))
                         ELSE Like(search)
                  ELSE value0
  IN  [isUsed |-> TRUE, value |-> value1]

\* getLosers: where = { deletedAt: IsNull(), isUsed: true, value }
getLosersWhere(search) ==
  LET filters == winnerValueFilters(allWinnerValues)
      value0 == IF Len(filters) > 0 THEN NotIn(filters) ELSE Unset
      value1 == IF Truthy(search)
                  THEN IF Len(filters) > 0 THEN NotIn(filters) ELSE Like(search)
                  ELSE value0
  IN  [isUsed |-> TRUE, value |-> value1]

\* getWinnerCodes: where = { deletedAt: IsNull(), value }
getWinnerCodesWhere(search) ==
  LET filters == winnerValueFilters(allWinnerValues)
      value0 == IF Len(filters) > 0 THEN In(filters) ELSE NullValue
      value1 == IF Truthy(search)
                  THEN IF Len(filters) > 0
                         THEN In(filterIncludes(filters, search))
                         ELSE Like(search)
                  ELSE value0
  IN  [isUsed |-> FALSE, value |-> value1]

\* getNonWinnerCodes: where = { deletedAt: IsNull(), value }
getNonWinnerCodesWhere(search) ==
  LET filters == winnerValueFilters(allWinnerValues)
      value0 == IF Len(filters) > 0 THEN NotIn(filters) ELSE Unset
      value1 == IF Truthy(search)
                  THEN IF Len(filters) > 0 THEN NotIn(filters) ELSE Like(search)
                  ELSE value0
  IN  [isUsed |-> FALSE, value |-> value1]

\* return { data, total }, kept with the call it answers
Answers(op, query, results) ==
  {[op |-> op, search |-> query.search, page |-> pageOf(query),
    limit |-> limitOf(query), data |-> r.data, total |-> r.total] : r \in results}

getWinnersResults(query) ==
  Answers("getWinners", query,
          findAndCount(getWinnersWhere(query.search), "usedAtDesc",
                       limitOf(query), skipOf(query)))

getLosersResults(query) ==
  Answers("getLosers", query,
          findAndCount(getLosersWhere(query.search), "usedAtDesc",
                       limitOf(query), skipOf(query)))

getWinnerCodesResults(query) ==
  Answers("getWinnerCodes", query,
          findAndCount(getWinnerCodesWhere(query.search), "idAsc",
                       limitOf(query), skipOf(query)))

getNonWinnerCodesResults(query) ==
  Answers("getNonWinnerCodes", query,
          findAndCount(getNonWinnerCodesWhere(query.search), "idAsc",
                       limitOf(query), skipOf(query)))

Idle == response.op = "none"

getWinners ==
  /\ Idle
  /\ \E query \in Queries : \E r \in getWinnersResults(query) : response' = r
  /\ UNCHANGED <<codes, winners, arg, ret, users, calls>>

getLosers ==
  /\ Idle
  /\ \E query \in Queries : \E r \in getLosersResults(query) : response' = r
  /\ UNCHANGED <<codes, winners, arg, ret, users, calls>>

getWinnerCodes ==
  /\ Idle
  /\ \E query \in Queries : \E r \in getWinnerCodesResults(query) : response' = r
  /\ UNCHANGED <<codes, winners, arg, ret, users, calls>>

getNonWinnerCodes ==
  /\ Idle
  /\ \E query \in Queries : \E r \in getNonWinnerCodesResults(query) : response' = r
  /\ UNCHANGED <<codes, winners, arg, ret, users, calls>>

\* the caller has taken the response; the service serves the next request
Return ==
  /\ ~Idle
  /\ response' = NoResponse
  /\ UNCHANGED <<codes, winners, arg, ret, users, calls>>

-----------------------------------------------------------------------------
(* Administrative actions on the two tables (made outside the views).      *)

Rows == Len(codes) + Len(winners)

AddCode ==
  /\ Idle /\ Rows < MaxRows
  /\ \E v \in CodeValues :
       codes' = Append(codes, [id |-> Len(codes) + 1, value |-> v, isUsed |-> FALSE,
                               usedAt |-> NullTime, deleted |-> FALSE])
  /\ UNCHANGED <<winners, response, arg, ret, users, calls>>

RedeemCode ==
  /\ Idle
  /\ \E i \in 1..Len(codes), t \in Times :
       /\ ~codes[i].deleted /\ ~codes[i].isUsed
       /\ codes' = [codes EXCEPT ![i].isUsed = TRUE, ![i].usedAt = t]
  /\ UNCHANGED <<winners, response, arg, ret, users, calls>>

DeleteCode ==
  /\ Idle
  /\ \E i \in 1..Len(codes) :
       /\ ~codes[i].deleted
       /\ codes' = [codes EXCEPT ![i].deleted = TRUE]
  /\ UNCHANGED <<winners, response, arg, ret, users, calls>>

AddWinner ==
  /\ Idle /\ Rows < MaxRows
  /\ \E v \in WinnerValues :
       winners' = Append(winners, [value |-> v, deleted |-> FALSE])
  /\ UNCHANGED <<codes, response, arg, ret, users, calls>>

DeleteWinner ==
  /\ Idle
  /\ \E i \in 1..Len(winners) :
       /\ ~winners[i].deleted
       /\ winners' = [winners EXCEPT ![i].deleted = TRUE]
  /\ UNCHANGED <<codes, response, arg, ret, users, calls>>

Init ==
  /\ codes = <<>>
  /\ winners = <<>>
  /\ response = NoResponse
  /\ arg = Null
  /\ ret = <<>>
  /\ users = <<>>
  /\ calls = NoCalls

Next ==
  \/ AddCode \/ RedeemCode \/ DeleteCode \/ AddWinner \/ DeleteWinner
  \/ getWinners \/ getLosers \/ getWinnerCodes \/ getNonWinnerCodes
  \/ Return

Spec == Init /\ [][Next]_vars

-----------------------------------------------------------------------------
(* norm applied to raw strings, and then to its own result.                *)

Alphabet == {"a", "A", "-", " "}

StringsUpTo(n) == UNION {[1..k -> Alphabet] : k \in 0..n}

RawStrings ==
  StringsUpTo(MaxLen) \cup {Null, CodePlain, CodeHyphen, CodeLower, RawExample}

InitNorm ==
  /\ codes = <<>>
  /\ winners = <<>>
  /\ response = NoResponse
  /\ arg \in RawStrings
  /\ ret = <<>>
  /\ users = <<>>
  /\ calls = NoCalls

\* norm(arg), then norm(norm(arg))
ApplyNorm ==
  /\ Len(ret) < 2
  /\ ret' = Append(ret, norm(IF ret = <<>> THEN arg ELSE ret[Len(ret)]))
  /\ UNCHANGED <<codes, winners, response, arg, users, calls>>

NextNorm == ApplyNorm

SpecNorm == InitNorm /\ [][NextNorm]_vars

-----------------------------------------------------------------------------
(* The builder applied to lists of winner values.                          *)

VariantInputs ==
  StringsUpTo(1)
    \cup {CodePlain, CodeHyphen, CodeLower, CodeOther, CodeShort, RawExample,
          Tail(CodePlain), CodePlain \o <<"7">>, <<" ">> \o CodeLower}

WinnerLists == UNION {[1..k -> VariantInputs] : k \in 0..MaxList}

InitVariants ==
  /\ codes = <<>>
  /\ winners = <<>>
  /\ response = NoResponse
  /\ arg \in WinnerLists
  /\ ret = <<>>
  /\ users = <<>>
  /\ calls = NoCalls

BuildVariants ==
  /\ ret = <<>>
  /\ ret' = <<winnerValueFilters(arg)>>
  /\ UNCHANGED <<codes, winners, response, arg, users, calls>>

NextVariants == BuildVariants

SpecVariants == InitVariants /\ [][NextVariants]_vars

-----------------------------------------------------------------------------
(* Vocabulary of the properties.                                           *)

Range(s) == {s[i] : i \in 1..Len(s)}

LiveWinnerValues == {w.value : w \in {x \in Range(winners) : ~x.deleted}}

LiveCodes == {c \in Range(codes) : ~c.deleted}

RedeemedCodes == {c \in LiveCodes : c.isUsed}

\* c[0:6] + "-" + c[6:10]
Hyphenated(c) == SubSeq(c, 1, 6) \o <<"-">> \o SubSeq(c, 7, 10)

VariantsOf(w) ==
  LET c == norm(w)
  IN  {w, c, RemoveHyphens(w)} \cup (IF Len(c) = 10 THEN {Hyphenated(c)} ELSE {})

VariantSet(ws) == UNION {VariantsOf(w) : w \in ws}

WinnerVariantSet == VariantSet(LiveWinnerValues)

NoSearch == response.search = Null

\* the response holds every matching row: first page, limit not reached
WholeView == response.page = 1 /\ response.total <= response.limit

Returned == Range(response.data)

-----------------------------------------------------------------------------
(* C3 (SpecNorm)                                                           *)

\* C3: norm is idempotent: once norm has been applied to a raw string and
\* then to its own result, the second result equals the first.
C3_NormIdempotent == Len(ret) = 2 => ret[2] = ret[1]

-----------------------------------------------------------------------------
(* C6, C7 (SpecVariants)                                                   *)

\* C6: the strings the builder pushes for a list of winner values are, as a
\* set, exactly the union over the values w of w, norm(w), w without
\* hyphens and, only when norm(w) has 10 characters, norm(w)[0:6] + "-" +
\* norm(w)[6:10]; at most four strings per winner value.
C6_VariantSetExact ==
  ret # <<>> =>
    /\ Range(ret[1]) = VariantSet(Range(arg))
    /\ Cardinality(Range(ret[1])) <= 4 * Cardinality(Range(arg))

\* the builder has run on a list holding a value with four distinct variants
\* and a value whose normalized form is not 10 characters long
C6_Witness ==
  /\ ret # <<>>
  /\ \E w \in Range(arg) : Len(norm(w)) = 10 /\ Cardinality(VariantsOf(w)) = 4
  /\ \E w \in Range(arg) : Len(norm(w)) > 10

NormExample == <<"A","B","1","2","C","D","3","4","5","6">>
StrippedExample == <<"a","b","1","2","c","d","3","4","5","6">>
RehyphenExample == <<"A","B","1","2","C","D","-","3","4","5","6">>

\* C7 as stated: for the single winner value "ab12-cd3456" the variant set
\* holds "ab12-cd3456", "AB12CD3456" and "ab12cd3456" and does not hold
\* "AB12CD-3456".
C7_NoRehyphenated ==
  (ret # <<>> /\ arg = <<RawExample>>) =>
    /\ {RawExample, NormExample, StrippedExample} \subseteq Range(ret[1])
    /\ RehyphenExample \notin Range(ret[1])

\* C7 amended: for the single winner value "ab12-cd3456" the variant set is
\* exactly "ab12-cd3456", "AB12CD3456", "ab12cd3456" and "AB12CD-3456", the
\* hyphenated rendering of its 10-character normalized form.
C7_FourVariants ==
  (ret # <<>> /\ arg = <<RawExample>>) =>
    Range(ret[1]) = {RawExample, NormExample, StrippedExample, RehyphenExample}

C7_Witness == ret # <<>> /\ arg = <<RawExample>>

-----------------------------------------------------------------------------
(* C1, C2, C4, C5 (Spec): what the views return.                           *)

\* C1: a redeemed, non-deleted code whose value normalizes to the same
\* string as some winner value is returned by the Winners view and not by
\* the Losers view (no search term).
C1_NormalizedMatchIsWinner ==
  \A c \in RedeemedCodes :
    (\E w \in LiveWinnerValues : norm(c.value) = norm(w)) =>
      /\ (response.op = "getWinners" /\ NoSearch /\ WholeView) => c \in Returned
      /\ (response.op = "getLosers" /\ NoSearch) => c \notin Returned

\* C2: with no non-deleted winner record, getWinners and getWinnerCodes
\* return no data and total 0, with or without a search term.
C2_NoWinnersNoMatch ==
  (response.op \in {"getWinners", "getWinnerCodes"} /\ LiveWinnerValues = {}) =>
    response.data = <<>> /\ response.total = 0

\* C4: without a search term Winners holds exactly the redeemed codes whose
\* value is in the winner-variant set and Losers exactly the other redeemed
\* codes, for every winner list, empty or not.
C4_WinnersLosersPartition ==
  LET inSet == {c \in RedeemedCodes : c.value \in WinnerVariantSet}
      outSet == RedeemedCodes \ inSet
  IN  /\ (response.op = "getWinners" /\ NoSearch) =>
           /\ Returned \subseteq inSet
           /\ response.total = Cardinality(inSet)
           /\ WholeView => Returned = inSet
      /\ (response.op = "getLosers" /\ NoSearch) =>
           /\ Returned \subseteq outSet
           /\ response.total = Cardinality(outSet)
           /\ WholeView => Returned = outSet

\* C5: with a non-empty winner list and a search term s, getWinners (over
\* the redeemed codes) and getWinnerCodes (over all codes) return exactly
\* the non-deleted codes whose value is a variant that contains s; nothing
\* when no variant contains s.
C5_SearchNarrowsVariants ==
  (response.op \in {"getWinners", "getWinnerCodes"} /\ ~NoSearch
     /\ LiveWinnerValues # {}) =>
    LET narrowed == {v \in WinnerVariantSet : includes(v, response.search)}
        candidates == IF response.op = "getWinners" THEN RedeemedCodes ELSE LiveCodes
        expected == {c \in candidates : c.value \in narrowed}
    IN  /\ Returned \subseteq expected
        /\ response.total = Cardinality(expected)
        /\ WholeView => Returned = expected
        /\ narrowed = {} => response.data = <<>>

\* getWinnerCodes has answered a search for a term that no raw winner value
\* contains and that a derived variant does, and returned a code
C5_Witness ==
  /\ response.op = "getWinnerCodes"
  /\ ~NoSearch
  /\ LiveWinnerValues # {}
  /\ \A w \in LiveWinnerValues : ~includes(w, response.search)
  /\ response.total > 0

-----------------------------------------------------------------------------
(* C8, C9, C10 (Spec)                                                      *)

\* some string occurs more than once in the list of variants the views build
VariantsCoincide ==
  LET filters == winnerValueFilters(allWinnerValues)
  IN  \E i, j \in 1..Len(filters) : i # j /\ filters[i] = filters[j]

\* the predicate of the view that answered, on a code record (the search
\* term narrows the two positive views as in C5)
InView(c) ==
  LET set == IF NoSearch THEN WinnerVariantSet
             ELSE {v \in WinnerVariantSet : includes(v, response.search)}
  IN  CASE response.op = "getWinners" -> c.isUsed /\ c.value \in set
        [] response.op = "getWinnerCodes" -> c.value \in set
        [] response.op = "getLosers" -> c.isUsed /\ c.value \notin WinnerVariantSet
        [] response.op = "getNonWinnerCodes" -> c.value \notin WinnerVariantSet

\* C8: when variants of the winner entries coincide, a response lists no
\* code record twice and its total is the number of distinct non-deleted
\* code records that satisfy the view's predicate.
C8_SetSemantics ==
  (~Idle /\ VariantsCoincide) =>
    /\ \A i, j \in 1..Len(response.data) :
         i # j => response.data[i].id # response.data[j].id
    /\ response.total = Cardinality({c \in LiveCodes : InView(c)})

\* two winner entries that differ in format and normalize to the same value,
\* and a Winners response that counts the one code they both match
C8_Witness ==
  /\ response.op = "getWinners"
  /\ \E w1, w2 \in LiveWinnerValues : w1 # w2 /\ norm(w1) = norm(w2)
  /\ response.total = 1
  /\ Len(response.data) = 1

\* a precedes or ties b in the order of the view that answered
PrecedesOrTies(a, b) ==
  IF response.op \in {"getWinners", "getLosers"}
    THEN a.usedAt >= b.usedAt
    ELSE a.id <= b.id

\* the responses the same view may give for the page after the one answered
NextPageResponses ==
  LET query == [search |-> response.search, page |-> response.page + 1,
                limit |-> response.limit]
  IN  CASE response.op = "getWinners" -> getWinnersResults(query)
        [] response.op = "getLosers" -> getLosersResults(query)
        [] response.op = "getWinnerCodes" -> getWinnerCodesResults(query)
        [] response.op = "getNonWinnerCodes" -> getNonWinnerCodesResults(query)

\* C9: getWinners and getLosers answer in non-increasing usedAt,
\* getWinnerCodes and getNonWinnerCodes in ascending id, within the page and
\* against every record of the following page.
C9_Ordering ==
  ~Idle =>
    /\ \A i, j \in 1..Len(response.data) :
         i < j => PrecedesOrTies(response.data[i], response.data[j])
    /\ \A next \in NextPageResponses :
         \A a \in Returned, b \in Range(next.data) : PrecedesOrTies(a, b)

\* the first page of Winners, one record long, with a later page holding a
\* code redeemed at another instant and created earlier
C9_Witness ==
  /\ response.op = "getWinners"
  /\ response.page = 1 /\ response.limit = 1 /\ response.total >= 2
  /\ \E next \in NextPageResponses : \E b \in Range(next.data) :
       b.usedAt < response.data[1].usedAt /\ b.id < response.data[1].id

\* what a response says about winner status agrees with the winner records
WinnerStatusCurrent ==
  /\ response.op \in {"getWinners", "getWinnerCodes"} =>
       \A c \in Returned : c.value \in WinnerVariantSet
  /\ response.op \in {"getLosers", "getNonWinnerCodes"} =>
       \A c \in Returned : c.value \notin WinnerVariantSet

\* C10: a view call leaves the code and winner records as they were, and
\* the winner status it reports is the one the winner records of that
\* moment give (a winner added or removed before the call is reflected).
C10_ReadOnlyAndCurrent ==
  [][(Idle /\ ~Idle') =>
       (codes' = codes /\ winners' = winners /\ WinnerStatusCurrent')]_vars

-----------------------------------------------------------------------------
(* C12 (Spec)                                                              *)

\* C12: with a search term s, every record getLosers and getNonWinnerCodes
\* return has a value that contains s and that is not in the winner-variant
\* set, for every winner list.
C12_NegativeViewsHonourSearch ==
  (response.op \in {"getLosers", "getNonWinnerCodes"} /\ ~NoSearch) =>
    \A c \in Returned :
      includes(c.value, response.search) /\ c.value \notin WinnerVariantSet

-----------------------------------------------------------------------------
(* getCodeMonth: the single-code lookup, on code tables whose rows carry   *)
(* the month column.                                                       *)

\* month column: null, the empty string, a month
Months == {Null, <<>>, <<"0", "1">>}

StoredValues == {CodePlain, CodeHyphen, CodeLower}

LookupValues == {CodePlain, CodeHyphen, CodeLower, CodeOther, <<" ">> \o CodeLower}

RowChoices == [value : StoredValues, month : Months, deleted : BOOLEAN]

MonthTables ==
  UNION {{[i \in 1..k |-> [id |-> i, value |-> f[i].value, isUsed |-> FALSE,
                           usedAt |-> NullTime, deleted |-> f[i].deleted,
                           month |-> f[i].month]] : f \in [1..k -> RowChoices]}
           : k \in 0..MaxLookupRows}

\* a lookup that tries the queried value only
getCodeMonthWhereRaw(value) == <<value>>

\* where: [{ value }, { value: withHyphen }, { value: normalized },
\*         { value: value.replace(/-/g, '') }], each with deletedAt: IsNull()
getCodeMonthWhere(value) ==
  LET normalized == norm(value)
  IN  <<value, withHyphen(normalized), normalized, RemoveHyphens(value)>>

\* repository.findOne({ where: [...] }): the rows it may return
findOneCode(values) ==
  {c \in {codes[i] : i \in 1..Len(codes)} :
     ~c.deleted /\ \E i \in 1..Len(values) : values[i] = c.value}

\* if (!code) throw CodeException.NotFound();
\* return { value: code.value, month: code.month || null }
getCodeMonthResults(value) ==
  LET found == findOneCode(getCodeMonthWhere(value))
  IN  IF found = {}
        THEN {[op |-> "getCodeMonth", query |-> value, error |-> "NotFound"]}
        ELSE {[op |-> "getCodeMonth", query |-> value, error |-> "none",
               value |-> c.value,
               month |-> IF c.month = Null \/ c.month = <<>> THEN Null ELSE c.month]
                : c \in found}

getCodeMonth ==
  /\ Idle
  /\ \E value \in LookupValues : \E r \in getCodeMonthResults(value) : response' = r
  /\ UNCHANGED <<codes, winners, arg, ret, users, calls>>

InitMonth ==
  /\ codes \in MonthTables
  /\ winners = <<>>
  /\ response = NoResponse
  /\ arg = Null
  /\ ret = <<>>
  /\ users = <<>>
  /\ calls = NoCalls

NextMonth == getCodeMonth \/ Return \/ DeleteCode

SpecMonth == InitMonth /\ [][NextMonth]_vars

-----------------------------------------------------------------------------
(* C11 (SpecMonth)                                                         *)

\* the answer of getCodeMonth agrees with the code table
LookupCorrect ==
  response.op = "getCodeMonth" =>
    LET matches == {c \in LiveCodes : c.value \in VariantsOf(response.query)}
    IN  /\ response.error = "NotFound" <=> matches = {}
        /\ response.error = "none" =>
             \E c \in matches :
               /\ response.value = c.value
               /\ c.month \in {Null, <<>>} => response.month = Null
               /\ c.month \notin {Null, <<>>} => response.month = c.month

\* C11: getCodeMonth answers with the value and month (or null) of a
\* non-deleted code whose stored value equals one of the four variants of
\* the queried value whenever there is one, raises NotFound exactly when
\* there is none, and leaves every record as it was.
C11_CodeMonthLookup ==
  [][(Idle /\ ~Idle') =>
       (codes' = codes /\ winners' = winners /\ LookupCorrect')]_vars

\* a lookup answered with a code stored under another spelling than the one
\* asked for, and with its month
C11_Witness ==
  /\ response.op = "getCodeMonth"
  /\ response.error = "none"
  /\ response.value # response.query
  /\ response.month # Null

\* a lookup that raised NotFound while a deleted code has the queried value
C11_NotFoundWitness ==
  /\ response.op = "getCodeMonth"
  /\ response.error = "NotFound"
  /\ \E c \in Range(codes) : c.deleted /\ c.value = response.query

-----------------------------------------------------------------------------
(* UserService: createUser, updateAnyUser, findByIdAndUpdateUser and       *)
(* deleteAnyUser.  Each call is a lookup, an await, and a write; calls of  *)
(* different callers interleave at the awaits.                             *)

Usernames == {"a", "b"}

TgIds == {1, 2}

\* a field the caller left out (undefined)
NotGiven == "undefined"

ADMIN == "ADMIN"
USER == "USER"
SUPER_ADMIN == "SUPER_ADMIN"

\* UserDto of createUser
CreateData ==
  [username : Usernames, tgId : TgIds, role : {NotGiven, SUPER_ADMIN},
   passwordsMatch : BOOLEAN]

\* UserDto of updateAnyUser, with allowRoleChange
UpdateAnyData ==
  [_id : 1..MaxUsers, username : Usernames \cup {NotGiven}, role : {USER},
   allowRoleChange : BOOLEAN, passwordsMatch : BOOLEAN]

\* UserDto of findByIdAndUpdateUser
UpdateData == [_id : 1..MaxUsers, username : Usernames \cup {NotGiven}]

AllUsers == {users[i] : i \in 1..Len(users)}

\* deletedAt: IsNull()
NonDeletedUsers == {u \in AllUsers : ~u.deleted}

Pending(op, pc, data) == [op |-> op, pc |-> pc, data |-> data]

\* the call has returned (error "none") or thrown
Done(op, data, error) == [op |-> op, pc |-> "done", data |-> data, error |-> error]

\* createUser calls that are past their lookup and have not saved yet
Saving == {p \in 1..MaxCalls : calls[p].op = "createUser" /\ calls[p].pc = "save"}

\* findOne({ where: [{ username, deletedAt: IsNull() }, { tgId, deletedAt: IsNull() }] })
existingUser(data) ==
  {u \in NonDeletedUsers : u.username = data.username \/ u.tgId = data.tgId}

\* createUser up to the await of hashPassword
createUser(p) ==
  /\ calls[p].pc = "idle"
  /\ \E data \in CreateData :
       IF existingUser(data) # {}
         THEN calls' = [calls EXCEPT ![p] = Done("createUser", data, "AllreadyExist")]
         ELSE IF ~data.passwordsMatch
           THEN calls' = [calls EXCEPT ![p] = Done("createUser", data, "PasswordsDoNotMatch")]
           ELSE /\ Len(users) + Cardinality(Saving) < MaxUsers
                /\ calls' = [calls EXCEPT ![p] = Pending("createUser", "save", data)]
  /\ UNCHANGED <<codes, winners, response, arg, ret, users>>

\* this.repository.create({...}); await this.repository.save(user)
createUserSave(p) ==
  /\ calls[p].op = "createUser"
  /\ calls[p].pc = "save"
  /\ LET data == calls[p].data
     IN  /\ users' = Append(users,
                       [id |-> Len(users) + 1, username |-> data.username,
                        tgId |-> data.tgId,
                        role |-> IF data.role = NotGiven THEN ADMIN ELSE data.role,
                        deleted |-> FALSE])
         /\ calls' = [calls EXCEPT ![p] = Done("createUser", data, "none")]
  /\ UNCHANGED <<codes, winners, response, arg, ret>>

\* BaseService.findByIdAndUpdate finds a row to update
canUpdate(id) == \E u \in NonDeletedUsers : u.id = id

\* BaseService.findByIdAndUpdate(id, updateData): fields left out are kept
findByIdAndUpdate(id, updateData) ==
  [i \in 1..Len(users) |->
     IF users[i].id = id /\ ~users[i].deleted
       THEN [users[i] EXCEPT
               !.username = IF updateData.username = NotGiven THEN @
                            ELSE updateData.username,
               !.role = IF updateData.role = NotGiven THEN @ ELSE updateData.role]
       ELSE users[i]]

\* BaseService.deleteById(id, deletedBy): soft delete
deleteById(id) ==
  [i \in 1..Len(users) |->
     IF users[i].id = id THEN [users[i] EXCEPT !.deleted = TRUE] ELSE users[i]]

\* updateAnyUser up to the await of findByIdAndUpdate
updateAnyUser(p) ==
  /\ calls[p].pc = "idle"
  /\ \E data \in UpdateAnyData :
       LET found == {u \in NonDeletedUsers : u.id = data._id}
       IN  IF found = {}
             THEN calls' = [calls EXCEPT ![p] = Done("updateAnyUser", data, "NotFound")]
             ELSE LET user == CHOOSE u \in found : TRUE
                      userByUsername ==
                        {u \in NonDeletedUsers : u.username = data.username}
                  IN  IF /\ data.username # NotGiven
                         /\ data._id # user.id
                         /\ userByUsername # {}
                        THEN calls' = [calls EXCEPT ![p] =
                                         Done("updateAnyUser", data, "AllreadyExist")]
                        ELSE IF ~data.passwordsMatch
                          THEN calls' = [calls EXCEPT ![p] =
                                 Done("updateAnyUser", data, "PasswordsDoNotMatch")]
                          ELSE calls' = [calls EXCEPT ![p] =
                                 Pending("updateAnyUser", "write", data)]
  /\ UNCHANGED <<codes, winners, response, arg, ret, users>>

\* await this.findByIdAndUpdate(data._id, updateData) of updateAnyUser
updateAnyUserWrite(p) ==
  /\ calls[p].op = "updateAnyUser"
  /\ calls[p].pc = "write"
  /\ LET data == calls[p].data
         updateData ==
           [username |-> data.username,
            role |-> IF data.allowRoleChange THEN data.role ELSE NotGiven]
     IN  IF canUpdate(data._id)
           THEN /\ users' = findByIdAndUpdate(data._id, updateData)
                /\ calls' = [calls EXCEPT ![p] = Done("updateAnyUser", data, "none")]
           ELSE /\ users' = users
                /\ calls' = [calls EXCEPT ![p] = Done("updateAnyUser", data, "NotFound")]
  /\ UNCHANGED <<codes, winners, response, arg, ret>>

\* findByIdAndUpdateUser up to the await of findByIdAndUpdate
findByIdAndUpdateUser(p) ==
  /\ calls[p].pc = "idle"
  /\ \E data \in UpdateData :
       LET found == {u \in AllUsers : u.id = data._id}
       IN  IF found = {} \/ \A u \in found : u.role # ADMIN
             THEN calls' = [calls EXCEPT ![p] =
                              Done("findByIdAndUpdateUser", data, "NotFound")]
             ELSE LET user == CHOOSE u \in found : TRUE
                      userByUsername == {u \in AllUsers : u.username = data.username}
                  IN  IF /\ data.username # NotGiven
                         /\ data._id # user.id
                         /\ userByUsername # {}
                        THEN calls' = [calls EXCEPT ![p] =
                                 Done("findByIdAndUpdateUser", data, "AllreadyExist")]
                        ELSE calls' = [calls EXCEPT ![p] =
                                 Pending("findByIdAndUpdateUser", "write", data)]
  /\ UNCHANGED <<codes, winners, response, arg, ret, users>>

\* await this.findByIdAndUpdate(data._id, updateData) of findByIdAndUpdateUser
findByIdAndUpdateUserWrite(p) ==
  /\ calls[p].op = "findByIdAndUpdateUser"
  /\ calls[p].pc = "write"
  /\ LET data == calls[p].data
         updateData == [username |-> data.username, role |-> NotGiven]
     IN  IF canUpdate(data._id)
           THEN /\ users' = findByIdAndUpdate(data._id, updateData)
                /\ calls' = [calls EXCEPT ![p] =
                               Done("findByIdAndUpdateUser", data, "none")]
           ELSE /\ users' = users
                /\ calls' = [calls EXCEPT ![p] =
                               Done("findByIdAndUpdateUser", data, "NotFound")]
  /\ UNCHANGED <<codes, winners, response, arg, ret>>

\* deleteAnyUser up to the await of deleteById
deleteAnyUser(p) ==
  /\ calls[p].pc = "idle"
  /\ \E id \in 1..MaxUsers :
       LET found == {u \in NonDeletedUsers : u.id = id}
           data == [_id |-> id]
       IN  IF found = {}
             THEN calls' = [calls EXCEPT ![p] = Done("deleteAnyUser", data, "NotFound")]
             ELSE IF \E u \in found : u.role = SUPER_ADMIN
               THEN calls' = [calls EXCEPT ![p] =
                                Done("deleteAnyUser", data, "NotEnoughPermission")]
               ELSE calls' = [calls EXCEPT ![p] = Pending("deleteAnyUser", "delete", data)]
  /\ UNCHANGED <<codes, winners, response, arg, ret, users>>

\* return await this.deleteById(id, deletedBy)
deleteAnyUserWrite(p) ==
  /\ calls[p].op = "deleteAnyUser"
  /\ calls[p].pc = "delete"
  /\ users' = deleteById(calls[p].data._id)
  /\ calls' = [calls EXCEPT ![p] = Done("deleteAnyUser", calls[p].data, "none")]
  /\ UNCHANGED <<codes, winners, response, arg, ret>>

\* the caller has its answer and may call again
Respond(p) ==
  /\ calls[p].pc = "done"
  /\ calls' = [calls EXCEPT ![p] = NoCall]
  /\ UNCHANGED <<codes, winners, response, arg, ret, users>>

InitUsers ==
  /\ codes = <<>>
  /\ winners = <<>>
  /\ response = NoResponse
  /\ arg = Null
  /\ ret = <<>>
  /\ users = <<>>
  /\ calls = NoCalls

NextUsers ==
  \E p \in 1..MaxCalls :
    \/ createUser(p)
    \/ createUserSave(p)
    \/ updateAnyUser(p)
    \/ updateAnyUserWrite(p)
    \/ findByIdAndUpdateUser(p)
    \/ findByIdAndUpdateUserWrite(p)
    \/ deleteAnyUser(p)
    \/ deleteAnyUserWrite(p)
    \/ Respond(p)

SpecUsers == InitUsers /\ [][NextUsers]_vars

-----------------------------------------------------------------------------
(* C13 (SpecUsers)                                                         *)

\* no two non-deleted users share a username or a tgId
UniqueUsers ==
  \A u, v \in NonDeletedUsers :
    u.id # v.id => (u.username # v.username /\ u.tgId # v.tgId)

\* the username or the tgId of the data is held by a non-deleted user
Taken(data) ==
  \E u \in NonDeletedUsers : u.username = data.username \/ u.tgId = data.tgId

\* C13: under every interleaving of createUser calls, a step of a createUser
\* call never makes two non-deleted users share a username or a tgId, and a
\* call that finds its username or tgId taken by a non-deleted user, at its
\* lookup or at its save, fails with AllreadyExist and stores nothing.
C13_CreateKeepsUsersUnique ==
  [][\A p \in 1..MaxCalls :
       /\ (calls[p].pc = "idle" /\ calls'[p].op = "createUser"
             /\ Taken(calls'[p].data)) =>
            (calls'[p].pc = "done" /\ calls'[p].error = "AllreadyExist"
               /\ users' = users)
       /\ (calls[p].op = "createUser" /\ calls[p].pc = "save"
             /\ calls'[p].pc = "done") =>
            /\ UniqueUsers => UniqueUsers'
            /\ Taken(calls[p].data) =>
                 (calls'[p].error = "AllreadyExist" /\ users' = users)]_vars

-----------------------------------------------------------------------------
(* C14 (SpecUsers)                                                         *)

UpdateOps == {"updateAnyUser", "findByIdAndUpdateUser"}

\* no two non-deleted users share a username
UniqueUsernames ==
  \A u, v \in NonDeletedUsers : u.id # v.id => u.username # v.username

\* the user the update is for exists (and is an ADMIN for findByIdAndUpdateUser)
HasTarget(call) ==
  \E u \in NonDeletedUsers :
    /\ u.id = call.data._id
    /\ call.op = "findByIdAndUpdateUser" => u.role = ADMIN

\* the update has nothing else wrong with it
OtherwiseValid(call) == call.op = "updateAnyUser" => call.data.passwordsMatch

\* the username of the data is held by a non-deleted user other than the target
HeldByOther(data) ==
  /\ data.username # NotGiven
  /\ \E u \in NonDeletedUsers : u.id # data._id /\ u.username = data.username

\* C14: an updateAnyUser or findByIdAndUpdateUser call for an existing user,
\* with a username held by another non-deleted user and nothing else wrong
\* with it, fails with AllreadyExist and changes no user,
\* and no write of an update call makes two non-deleted users share a
\* username.
C14_UpdateKeepsUsernamesUnique ==
  [][\A p \in 1..MaxCalls :
       /\ (calls[p].pc = "idle" /\ calls'[p].op \in UpdateOps
             /\ HasTarget(calls'[p]) /\ OtherwiseValid(calls'[p])
             /\ HeldByOther(calls'[p].data)) =>
            (calls'[p].pc = "done" /\ calls'[p].error = "AllreadyExist"
               /\ users' = users)
       /\ (calls[p].op \in UpdateOps /\ calls[p].pc = "write"
             /\ calls'[p].pc = "done") =>
            (UniqueUsernames => UniqueUsernames')]_vars

====
